---- MODULE Spec2Model ----
(***************************************************************************)
(* Model of the multi-strategy trading bot: the TradingBot engine          *)
(* (core/trading_bot.py), the strategy objects it drives                   *)
(* (strategies/*.py) and the control path of the desktop front end         *)
(* (gui/main_window.py).                                                   *)
(*                                                                         *)
(* Spec is the application: the button handlers of the main window and    *)
(* the run_bot polling threads they start.  SpecAPI drives the methods of  *)
(* one TradingBot object and the handlers of its window directly, one call *)
(* after the other.  SpecSignals is the part of SpecAPI that runs the      *)
(* strategies and combines their signals, over every combination of        *)
(* strategy outcomes.                                                      *)
(***************************************************************************)
EXTENDS Integers, Sequences, FiniteSets, TLC

VARIABLES
    strategies,       \* TradingBot.strategies: list of strategy objects
    data,             \* TradingBot.data: None or the fetched frame
    in_position,      \* TradingBot.in_position
    current_signals,  \* TradingBot.current_signals: dict name -> signal
    exchange_orders,  \* orders submitted to the exchange (create_market_*_order)
    running,          \* TradingBotGUI.running
    start_button,     \* state of the Start Bot button
    stop_button,      \* state of the Stop Bot button
    threads,          \* the run_bot threads started so far: [pc, i, combined_signal, order]
    last,             \* the direct call that completed last: [op, arg, ret]
    last_fill,        \* side of the last execute_order call that returned True
    ui_call,          \* update_settings on the UI thread: the setattr calls it has yet to make
    calc_call,        \* the calculate call a polling thread is inside: [index, reads]
    input,            \* a strategy object and the candle series given to its calculate
    output            \* what calculate and get_signal made of input

bot_vars == <<strategies, data, in_position, current_signals, exchange_orders>>

gui_vars == <<running, start_button, stop_button, threads>>

\* an update_settings call taken setattr by setattr against a calculate call
\* taken attribute read by attribute read
call_vars == <<ui_call, calc_call>>

\* one strategy on one candle series
eval_vars == <<input, output>>

detail_vars == <<call_vars, eval_vars>>

vars == <<bot_vars, gui_vars, last, last_fill, detail_vars>>

-----------------------------------------------------------------------------
(* Bounds *)

\* largest number of bars one fetch_ohlcv call returns in the model
MaxBars == 2

\* number of add_strategy calls the model follows
MaxExtra == 1

\* longest candle series a strategy is evaluated on
MaxLen == 3

\* longest series the strategies that read the close column alone are
\* evaluated on
MaxCloses == 4

\* number of run_bot threads the model lets start_bot create
MaxThreads == 2

\* iterations of the one-second wait loop of run_bot (range(60) in the source)
WaitIterations == 2

-----------------------------------------------------------------------------
(* Values *)

None == "None"

\* None where a frame is expected (TradingBot.data before the first fetch)
NoneFrame == [is_none |-> TRUE]

Signals == {"buy", "sell", "hold"}

\* what calculate followed by get_signal does for one strategy on one frame:
\* it returns a signal, or one of the two raises
Outcomes == Signals \cup {"raise"}

\* the aggregation modes offered by the combo box, and two texts that are none of them
KnownModes == {"majority", "consensus", "any"}

Modes == KnownModes \cup {"all", ""}

\* texts read from the combo box by the polling thread
CycleModes == KnownModes \cup {"all"}

\* signal arguments given to execute_order: the three signals and a foreign value
OrderSignals == Signals \cup {"short"}

EmptyDict == [n \in {} |-> "hold"]

Put(d, k, v) == [n \in (DOMAIN d) \cup {k} |-> IF n = k THEN v ELSE d[n]]

\* dict.values() counted for one value, as list.count does
Count(d, v) == Cardinality({n \in DOMAIN d : d[n] = v})

-----------------------------------------------------------------------------
(* Strategy objects: the attributes of each instance *)

SupertrendStrategy ==
    [name |-> "Supertrend", is_active |-> FALSE, period |-> 10, multiplier |-> 3]

GoldenCrossStrategy ==
    [name |-> "Golden Cross", is_active |-> FALSE, short_period |-> 50, long_period |-> 200]

BollingerBandsStrategy ==
    [name |-> "Bollinger Bands", is_active |-> FALSE, period |-> 20, num_std |-> 2]

\* threshold is held in units of 1/100000 (0.001 = 100)
FundingRateStrategy ==
    [name |-> "Funding Rate", is_active |-> FALSE, threshold |-> 100]

\* a plain TradingStrategy, as add_strategy may be given
TradingStrategy == [name |-> "Custom", is_active |-> FALSE]

\* set_parameters as it would be with setattr for every key
set_parameters_CreatesAttributes(s, params) ==
    [a \in (DOMAIN s) \cup (DOMAIN params) |-> IF a \in DOMAIN params THEN params[a] ELSE s[a]]

\* set_parameters: every key that is an attribute is overwritten, the rest skipped
set_parameters(s, params) ==
    [a \in DOMAIN s |-> IF a \in DOMAIN params THEN params[a] ELSE s[a]]

\* main.setup_strategies: the four strategies, all switched on
setup_strategies ==
    << set_parameters(SupertrendStrategy, [is_active |-> TRUE]),
       set_parameters(GoldenCrossStrategy, [is_active |-> TRUE]),
       set_parameters(BollingerBandsStrategy, [is_active |-> TRUE]),
       set_parameters(FundingRateStrategy, [is_active |-> TRUE]) >>

StrategyNames == {"Supertrend", "Golden Cross", "Bollinger Bands", "Funding Rate"}

\* the outcome of calculate + get_signal of strategy s in this run; the base
\* class returns the frame as it is and always signals 'hold'
StrategyOutcome(s, outcome) ==
    IF s.name \in DOMAIN outcome THEN outcome[s.name] ELSE "hold"

-----------------------------------------------------------------------------
(* TradingBot *)

\* no calculate call is being followed
NoCall == [index |-> 0, reads |-> << >>]

NoInput == [strategy |-> TradingStrategy, series |-> << >>]

NoOutput == [returned |-> FALSE]

Init ==
    /\ strategies = setup_strategies
    /\ data = NoneFrame
    /\ in_position = FALSE
    /\ current_signals = EmptyDict
    /\ exchange_orders = << >>
    /\ running = FALSE
    /\ start_button = "normal"
    /\ stop_button = "disabled"
    /\ threads = << >>
    /\ last = [op |-> "init", arg |-> None, ret |-> None]
    /\ last_fill = None
    /\ ui_call = << >>
    /\ calc_call = NoCall
    /\ input = NoInput
    /\ output = NoOutput

add_strategy(strategy) ==
    /\ Len(strategies) < Len(setup_strategies) + MaxExtra
    /\ strategies' = Append(strategies, strategy)
    /\ UNCHANGED <<data, in_position, current_signals, exchange_orders>>

\* the columns fetch_data gives the frame
Columns == {"timestamp", "open", "high", "low", "close", "volume"}

\* the frame built from bars[:-1]: the last bar is dropped
Frame(nbars) == [len |-> IF nbars = 0 THEN 0 ELSE nbars - 1, columns |-> Columns]

\* fetch_ohlcv either raises (ok = FALSE) or returns nbars bars
FetchResult(ok, nbars) == IF ok THEN Frame(nbars) ELSE NoneFrame

\* fetch_data as it would be if the flag were re-derived on every fetch
fetch_data_ResetsPosition(ok, nbars) ==
    /\ data' = IF ok THEN FetchResult(ok, nbars) ELSE data
    /\ in_position' = IF ok THEN FALSE ELSE in_position
    /\ UNCHANGED <<strategies, current_signals, exchange_orders>>

fetch_data(ok, nbars) ==
    /\ data' = IF ok THEN FetchResult(ok, nbars) ELSE data
    /\ UNCHANGED <<strategies, in_position, current_signals, exchange_orders>>

\* f'MA_{period}'
MAColumn(period) == "MA_" \o ToString(period)

\* the columns calculate of strategy s assigns to its copy of the frame (the
\* base class assigns none)
IndicatorColumns(s) ==
    CASE s.name = "Supertrend" ->
            {"atr", "upperband", "lowerband", "in_uptrend"}
      [] s.name = "Golden Cross" ->
            {MAColumn(s.short_period), MAColumn(s.long_period), "golden_cross", "death_cross"}
      [] s.name = "Bollinger Bands" ->
            {"bb_middle", "bb_std", "bb_upper", "bb_lower", "above_upper", "below_lower",
             "bb_buy_signal", "bb_sell_signal"}
      [] s.name = "Funding Rate" -> {"funding_rate", "fr_buy_signal", "fr_sell_signal"}
      [] OTHER -> {}

\* the frame calculate returns: the rows it was given, its columns added
calculate(s, frame) == [frame EXCEPT !.columns = @ \cup IndicatorColumns(s)]

\* the loop state before the first iteration: results = {} and no calculate call made
NoResults == [results |-> EmptyDict, calls |-> << >>]

\* the loop as it would be without the test of is_active
RECURSIVE RunLoop_IgnoresActive(_, _, _, _, _)
RunLoop_IgnoresActive(strats, outcome, d, i, acc) ==
    IF i > Len(strats) THEN acc
    ELSE LET s == strats[i]
             o == StrategyOutcome(s, outcome)
             called == [acc EXCEPT !.calls = Append(@, [index |-> i, data |-> d])]
         IN  IF o \in Signals
             THEN RunLoop_IgnoresActive(strats, outcome, d, i + 1,
                      [called EXCEPT !.results =
                          Put(@, s.name, [data |-> calculate(s, d), signal |-> o])])
             ELSE RunLoop_IgnoresActive(strats, outcome, d, i + 1, called)

\* the loop as it would be with one frame handed from strategy to strategy
RECURSIVE RunLoop_SharedFrame(_, _, _, _, _)
RunLoop_SharedFrame(strats, outcome, d, i, acc) ==
    IF i > Len(strats) THEN acc
    ELSE LET s == strats[i]
             o == StrategyOutcome(s, outcome)
             called == [acc EXCEPT !.calls = Append(@, [index |-> i, data |-> d])]
         IN  IF ~s.is_active THEN RunLoop_SharedFrame(strats, outcome, d, i + 1, acc)
             ELSE IF o \in Signals
             THEN RunLoop_SharedFrame(strats, outcome, calculate(s, d), i + 1,
                      [called EXCEPT !.results =
                          Put(@, s.name, [data |-> calculate(s, d), signal |-> o])])
             ELSE RunLoop_SharedFrame(strats, outcome, calculate(s, d), i + 1, called)

\* the loop of run_strategies over strats[i..] on self.data = d: acc.results is
\* the results dict, acc.calls the calculate calls made, each with the index
\* of the strategy and the frame it was given (strategy_data = self.data.copy())
RECURSIVE RunLoop(_, _, _, _, _)
RunLoop(strats, outcome, d, i, acc) ==
    IF i > Len(strats) THEN acc
    ELSE LET s == strats[i]
             o == StrategyOutcome(s, outcome)
             called == [acc EXCEPT !.calls = Append(@, [index |-> i, data |-> d])]
         IN  IF ~s.is_active THEN RunLoop(strats, outcome, d, i + 1, acc)
             ELSE IF o \in Signals
             THEN RunLoop(strats, outcome, d, i + 1,
                      [called EXCEPT !.results =
                          Put(@, s.name, [data |-> calculate(s, d), signal |-> o])])
             ELSE RunLoop(strats, outcome, d, i + 1, called)

\* the loop as it would be with the try around the whole loop: the first
\* raise ends the evaluation
RECURSIVE RunLoopAborting(_, _, _, _, _)
RunLoopAborting(strats, outcome, d, i, acc) ==
    IF i > Len(strats) THEN acc
    ELSE LET s == strats[i]
             o == StrategyOutcome(s, outcome)
             called == [acc EXCEPT !.calls = Append(@, [index |-> i, data |-> d])]
         IN  IF ~s.is_active THEN RunLoopAborting(strats, outcome, d, i + 1, acc)
             ELSE IF o \in Signals
             THEN RunLoopAborting(strats, outcome, d, i + 1,
                      [called EXCEPT !.results =
                          Put(@, s.name, [data |-> calculate(s, d), signal |-> o])])
             ELSE called

RunResults_AbortOnRaise(strats, outcome, d) == RunLoopAborting(strats, outcome, d, 1, NoResults)

\* results and calls of one run over all strategies
RunResults(strats, outcome, d) == RunLoop(strats, outcome, d, 1, NoResults)

\* {name: result['signal'] for name, result in results.items()}
SignalsOf(results) == [n \in DOMAIN results |-> results[n].signal]

\* the dict run_strategies returns
RunReturn(d, strats, outcome) ==
    IF d = NoneFrame THEN EmptyDict ELSE RunResults(strats, outcome, d).results

\* the calculate calls run_strategies makes
RunCalls(d, strats, outcome) ==
    IF d = NoneFrame THEN << >> ELSE RunResults(strats, outcome, d).calls

\* run_strategies as it would be with the new signals written into the dict
\* of the run before
run_strategies_KeepsOld(outcome) ==
    /\ current_signals' =
          IF data = NoneFrame THEN current_signals
          ELSE LET new == SignalsOf(RunResults(strategies, outcome, data).results)
               IN  [n \in (DOMAIN current_signals) \cup (DOMAIN new) |->
                       IF n \in DOMAIN new THEN new[n] ELSE current_signals[n]]
    /\ UNCHANGED <<strategies, data, in_position, exchange_orders>>

run_strategies(outcome) ==
    /\ current_signals' = IF data = NoneFrame THEN current_signals
                          ELSE SignalsOf(RunResults(strategies, outcome, data).results)
    /\ UNCHANGED <<strategies, data, in_position, exchange_orders>>

\* the three rules, each on its own
Majority(signals) ==
    LET buy_count == Count(signals, "buy")
        sell_count == Count(signals, "sell")
        hold_count == Count(signals, "hold")
    IN  IF buy_count > sell_count /\ buy_count > hold_count THEN "buy"
        ELSE IF sell_count > buy_count /\ sell_count > hold_count THEN "sell"
        ELSE "hold"

Consensus(signals) ==
    IF \A n \in DOMAIN signals : signals[n] = "buy" THEN "buy"
    ELSE IF \A n \in DOMAIN signals : signals[n] = "sell" THEN "sell"
    ELSE "hold"

AnySignal(signals) ==
    IF \E n \in DOMAIN signals : signals[n] = "buy" THEN "buy"
    ELSE IF \E n \in DOMAIN signals : signals[n] = "sell" THEN "sell"
    ELSE "hold"

\* majority that lets a tied count win
CombinedSignal_TieWins(signals, mode) ==
    IF DOMAIN signals = {} THEN "hold"
    ELSE IF mode = "majority" THEN
        LET buy_count == Count(signals, "buy")
            sell_count == Count(signals, "sell")
            hold_count == Count(signals, "hold")
        IN  IF buy_count >= sell_count /\ buy_count >= hold_count THEN "buy"
            ELSE IF sell_count >= buy_count /\ sell_count >= hold_count THEN "sell"
            ELSE "hold"
    ELSE IF mode = "consensus" THEN Consensus(signals)
    ELSE IF mode = "any" THEN AnySignal(signals)
    ELSE "hold"

\* without the early return on an empty dict
CombinedSignal_NoEmptyGuard(signals, mode) ==
    IF mode = "majority" THEN Majority(signals)
    ELSE IF mode = "consensus" THEN Consensus(signals)
    ELSE IF mode = "any" THEN AnySignal(signals)
    ELSE "hold"

\* 'any' that looks for a sell first
CombinedSignal_SellFirst(signals, mode) ==
    IF DOMAIN signals = {} THEN "hold"
    ELSE IF mode = "majority" THEN Majority(signals)
    ELSE IF mode = "consensus" THEN Consensus(signals)
    ELSE IF mode = "any" THEN
        IF \E n \in DOMAIN signals : signals[n] = "sell" THEN "sell"
        ELSE IF \E n \in DOMAIN signals : signals[n] = "buy" THEN "buy"
        ELSE "hold"
    ELSE "hold"

\* an unrecognised mode handled as the default mode of the signature
CombinedSignal_DefaultMajority(signals, mode) ==
    IF DOMAIN signals = {} THEN "hold"
    ELSE IF mode = "consensus" THEN Consensus(signals)
    ELSE IF mode = "any" THEN AnySignal(signals)
    ELSE Majority(signals)

CombinedSignal(signals, mode) ==
    IF DOMAIN signals = {} THEN "hold"
    ELSE IF mode = "majority" THEN Majority(signals)
    ELSE IF mode = "consensus" THEN Consensus(signals)
    ELSE IF mode = "any" THEN AnySignal(signals)
    ELSE "hold"

get_combined_signal(mode) ==
    UNCHANGED <<strategies, data, in_position, current_signals, exchange_orders>>

\* execute_order as a function of the signal and the flag: the new flag, the
\* value returned and the orders handed to the exchange (the two
\* create_market_*_order calls are commented out, so none is)
\* the gate without the test of the flag on a buy
OrderGate_BuyIgnoresPosition(signal, pos) ==
    IF signal = "buy" THEN [in_position |-> TRUE, ret |-> TRUE, orders |-> << >>]
    ELSE IF signal = "sell" /\ pos THEN [in_position |-> FALSE, ret |-> TRUE, orders |-> << >>]
    ELSE [in_position |-> pos, ret |-> FALSE, orders |-> << >>]

\* the gate without the test of the flag on a sell
OrderGate_SellIgnoresPosition(signal, pos) ==
    IF signal = "buy" /\ ~pos THEN [in_position |-> TRUE, ret |-> TRUE, orders |-> << >>]
    ELSE IF signal = "sell" THEN [in_position |-> FALSE, ret |-> TRUE, orders |-> << >>]
    ELSE [in_position |-> pos, ret |-> FALSE, orders |-> << >>]

OrderGate(signal, pos) ==
    IF signal = "buy" /\ ~pos THEN [in_position |-> TRUE, ret |-> TRUE, orders |-> << >>]
    ELSE IF signal = "sell" /\ pos THEN [in_position |-> FALSE, ret |-> TRUE, orders |-> << >>]
    ELSE [in_position |-> pos, ret |-> FALSE, orders |-> << >>]

execute_order(signal) ==
    LET g == OrderGate(signal, in_position) IN
    /\ in_position' = g.in_position
    /\ exchange_orders' = exchange_orders \o g.orders
    /\ last_fill' = IF g.ret THEN signal ELSE last_fill
    /\ UNCHANGED <<strategies, data, current_signals>>

-----------------------------------------------------------------------------
(* TradingBotGUI: the settings form *)

\* int(text) for the texts typed in the model; any other text raises ValueError
IntOf == ("7" :> 7) @@ ("10" :> 10) @@ ("20" :> 20) @@ ("50" :> 50) @@ ("200" :> 200)

\* float(text), in hundredths; any other text raises ValueError
FloatOf == ("2" :> 200) @@ ("3" :> 300) @@ ("0.1" :> 10) @@ ("0.2" :> 20)

\* the variables of the four strategy tabs as the tabs create them
DefaultVars ==
    [st_active |-> TRUE, st_period |-> "10", st_multiplier |-> "3",
     gc_active |-> TRUE, gc_short_period |-> "50", gc_long_period |-> "200",
     bb_active |-> TRUE, bb_period |-> "20", bb_std_dev |-> "2",
     fr_active |-> TRUE, fr_threshold |-> "0.1"]

\* form contents the user leaves behind in the model
GuiInputs ==
    { DefaultVars,
      [DefaultVars EXCEPT !.st_active = FALSE, !.bb_active = FALSE],
      [DefaultVars EXCEPT !.gc_active = FALSE, !.gc_long_period = "abc"],
      [DefaultVars EXCEPT !.st_active = FALSE, !.fr_threshold = ""] }

\* the conversions of block k of update_settings succeed
ParamsOk(k, v) ==
    CASE k = 1 -> v.st_period \in DOMAIN IntOf /\ v.st_multiplier \in DOMAIN FloatOf
      [] k = 2 -> v.gc_short_period \in DOMAIN IntOf /\ v.gc_long_period \in DOMAIN IntOf
      [] k = 3 -> v.bb_period \in DOMAIN IntOf /\ v.bb_std_dev \in DOMAIN FloatOf
      [] k = 4 -> v.fr_threshold \in DOMAIN FloatOf

\* the params dict of block k; multiplier and num_std are kept in units, the
\* threshold (float / 100.0) in units of 1/100000
Params(k, v) ==
    CASE k = 1 -> [is_active |-> v.st_active, period |-> IntOf[v.st_period],
                   multiplier |-> FloatOf[v.st_multiplier] \div 100]
      [] k = 2 -> [is_active |-> v.gc_active, short_period |-> IntOf[v.gc_short_period],
                   long_period |-> IntOf[v.gc_long_period]]
      [] k = 3 -> [is_active |-> v.bb_active, period |-> IntOf[v.bb_period],
                   num_std |-> FloatOf[v.bb_std_dev] \div 100]
      [] k = 4 -> [is_active |-> v.fr_active, threshold |-> FloatOf[v.fr_threshold] * 10]

\* the first block whose conversion raises, 5 when none does
FirstFail(v) ==
    IF \E k \in 1..4 : ~ParamsOk(k, v)
    THEN CHOOSE k \in 1..4 : ~ParamsOk(k, v) /\ \A j \in 1..(k - 1) : ParamsOk(j, v)
    ELSE 5

\* update_settings as it would be with every conversion made before the first
\* set_parameters call: a form with a bad input changes nothing
UpdatedStrategies_AllOrNothing(strats, v) ==
    [k \in 1..Len(strats) |->
        IF k <= 4 /\ FirstFail(v) = 5 THEN set_parameters(strats[k], Params(k, v))
        ELSE strats[k]]

\* bot.strategies after update_settings: the blocks before the first failing one applied
UpdatedStrategies(strats, v) ==
    [k \in 1..Len(strats) |->
        IF k <= 4 /\ k < FirstFail(v) THEN set_parameters(strats[k], Params(k, v))
        ELSE strats[k]]

update_settings(v) ==
    /\ strategies' = UpdatedStrategies(strategies, v)
    /\ UNCHANGED <<data, in_position, current_signals, exchange_orders, gui_vars>>

\* the locals of run_bot; data and combined_signal are unassigned until their
\* first use and are not read once a cycle is over, so they are held as None then
NewThread ==
    [pc |-> "while", i |-> 0, data |-> NoneFrame, combined_signal |-> None, order |-> None]

start_bot(v) ==
    /\ start_button = "normal"
    /\ Len(threads) < MaxThreads
    /\ strategies' = UpdatedStrategies(strategies, v)
    /\ running' = TRUE
    /\ start_button' = "disabled"
    /\ stop_button' = "normal"
    /\ threads' = Append(threads, NewThread)
    /\ UNCHANGED <<data, in_position, current_signals, exchange_orders>>

stop_bot ==
    /\ stop_button = "normal"
    /\ running' = FALSE
    /\ start_button' = "normal"
    /\ stop_button' = "disabled"
    /\ UNCHANGED <<bot_vars, threads>>

-----------------------------------------------------------------------------
(* TradingBotGUI.run_bot, one thread t, step by step *)

Goto(t, pc) == threads' = [threads EXCEPT ![t].pc = pc]

\* the loop as it would be with while True
run_bot_while_Forever(t) ==
    /\ threads[t].pc = "while"
    /\ Goto(t, "fetch")
    /\ UNCHANGED <<bot_vars, running, start_button, stop_button, last, last_fill>>

\* while self.running
run_bot_while(t) ==
    /\ threads[t].pc = "while"
    /\ Goto(t, IF running THEN "fetch" ELSE "done")
    /\ UNCHANGED <<bot_vars, running, start_button, stop_button, last, last_fill>>

\* the fetch as it would be without the test of its result
run_bot_fetch_NoTest(t, ok, nbars) ==
    /\ threads[t].pc = "fetch"
    /\ fetch_data(ok, nbars)
    /\ threads' = [threads EXCEPT ![t].data = FetchResult(ok, nbars), ![t].pc = "run"]
    /\ UNCHANGED <<running, start_button, stop_button, last, last_fill>>

\* data = self.bot.fetch_data(symbol, timeframe); if data is not None
run_bot_fetch(t, ok, nbars) ==
    /\ threads[t].pc = "fetch"
    /\ fetch_data(ok, nbars)
    /\ threads' = [threads EXCEPT ![t].data = FetchResult(ok, nbars),
                                  ![t].pc = IF FetchResult(ok, nbars) # NoneFrame
                                            THEN "run" ELSE "draw"]
    /\ UNCHANGED <<running, start_button, stop_button, last, last_fill>>

\* strategy_results = self.bot.run_strategies()
run_bot_run(t, outcome) ==
    /\ threads[t].pc = "run"
    /\ run_strategies(outcome)
    /\ Goto(t, "charts")
    /\ UNCHANGED <<running, start_button, stop_button, last, last_fill>>

\* update_charts and the signal labels; plotting may raise
run_bot_charts(t, raises) ==
    /\ threads[t].pc = "charts"
    /\ Goto(t, IF raises THEN "except" ELSE "combine")
    /\ UNCHANGED <<bot_vars, running, start_button, stop_button, last, last_fill>>

\* combined_signal = self.bot.get_combined_signal(self.signal_mode_combo.get())
run_bot_combine(t, mode) ==
    /\ threads[t].pc = "combine"
    /\ get_combined_signal(mode)
    /\ threads' = [threads EXCEPT
                     ![t].combined_signal = CombinedSignal(current_signals, mode),
                     ![t].pc = IF CombinedSignal(current_signals, mode) \in {"buy", "sell"}
                               THEN "execute" ELSE "draw"]
    /\ UNCHANGED <<running, start_button, stop_button, last, last_fill>>

\* execute_order, entered: the test of the signal against in_position
run_bot_execute(t) ==
    /\ threads[t].pc = "execute"
    /\ LET g == OrderGate(threads[t].combined_signal, in_position) IN
         IF g.ret
         THEN threads' = [threads EXCEPT ![t].order = g, ![t].pc = "order"]
         ELSE threads' = [threads EXCEPT ![t].pc = "draw"]
    /\ UNCHANGED <<bot_vars, running, start_button, stop_button, last, last_fill>>

\* execute_order, the branch taken: log, set the flag, return True
run_bot_order(t) ==
    /\ threads[t].pc = "order"
    /\ in_position' = threads[t].order.in_position
    /\ exchange_orders' = exchange_orders \o threads[t].order.orders
    /\ last_fill' = threads[t].combined_signal
    /\ threads' = [threads EXCEPT ![t].order = None, ![t].pc = "draw"]
    /\ UNCHANGED <<strategies, data, current_signals, running, start_button, stop_button,
                   last>>

\* self.canvas.draw(), which may raise, then the wait loop starts
run_bot_draw(t, raises) ==
    /\ threads[t].pc = "draw"
    /\ threads' = [threads EXCEPT ![t].i = 0, ![t].data = NoneFrame,
                                  ![t].combined_signal = None,
                                  ![t].pc = IF raises THEN "except" ELSE "wait"]
    /\ UNCHANGED <<bot_vars, running, start_button, stop_button, last, last_fill>>

\* the wait as it would be with the next fetch following it directly
run_bot_wait_NoLoopTest(t) ==
    /\ threads[t].pc = "wait"
    /\ IF threads[t].i < WaitIterations /\ running
       THEN threads' = [threads EXCEPT ![t].i = @ + 1]
       ELSE threads' = [threads EXCEPT ![t].i = 0, ![t].pc = "fetch"]
    /\ UNCHANGED <<bot_vars, running, start_button, stop_button, last, last_fill>>

\* for i in range(60): if not self.running: break; time.sleep(1)
run_bot_wait(t) ==
    /\ threads[t].pc = "wait"
    /\ IF threads[t].i < WaitIterations /\ running
       THEN threads' = [threads EXCEPT ![t].i = @ + 1]
       ELSE threads' = [threads EXCEPT ![t].i = 0, ![t].pc = "while"]
    /\ UNCHANGED <<bot_vars, running, start_button, stop_button, last, last_fill>>

\* the handler as it would be with the try around the loop: the error ends run_bot
run_bot_except_EndsLoop(t) ==
    /\ threads[t].pc = "except"
    /\ threads' = [threads EXCEPT ![t].i = 0, ![t].data = NoneFrame,
                                  ![t].combined_signal = None, ![t].pc = "done"]
    /\ UNCHANGED <<bot_vars, running, start_button, stop_button, last, last_fill>>

\* except Exception: log, time.sleep(10)
run_bot_except(t) ==
    /\ threads[t].pc = "except"
    /\ threads' = [threads EXCEPT ![t].i = 0, ![t].data = NoneFrame,
                                  ![t].combined_signal = None, ![t].pc = "while"]
    /\ UNCHANGED <<bot_vars, running, start_button, stop_button, last, last_fill>>

-----------------------------------------------------------------------------
(* The application *)

\* outcomes of the four strategies in one polling cycle followed by the model
CycleOutcomes ==
    { [n \in StrategyNames |-> "buy"],
      [n \in StrategyNames |-> "sell"],
      [n \in StrategyNames |-> "hold"],
      [n \in StrategyNames |-> IF n = "Supertrend" THEN "raise" ELSE "buy"],
      [n \in StrategyNames |-> IF n = "Funding Rate" THEN "sell" ELSE "raise"] }

\* the form as the tabs create it and with one period retyped; the strategy
\* outcomes and the combo box texts the polling threads meet
AppInputs == {DefaultVars, [DefaultVars EXCEPT !.st_period = "7"]}

AppOutcomes ==
    { [n \in StrategyNames |-> "buy"],
      [n \in StrategyNames |-> "sell"],
      [n \in StrategyNames |-> IF n = "Supertrend" THEN "raise" ELSE "hold"] }

AppModes == {"majority"}

\* one step of polling thread t, the strategies' outcomes drawn from a given set
run_bot_step(t, outcomes) ==
    \/ run_bot_while(t) /\ UNCHANGED detail_vars
    \/ \E ok \in BOOLEAN : run_bot_fetch(t, ok, MaxBars) /\ UNCHANGED detail_vars
    \/ \E outcome \in outcomes : run_bot_run(t, outcome) /\ UNCHANGED detail_vars
    \/ \E raises \in BOOLEAN : run_bot_charts(t, raises) /\ UNCHANGED detail_vars
    \/ \E mode \in AppModes : run_bot_combine(t, mode) /\ UNCHANGED detail_vars
    \/ run_bot_execute(t) /\ UNCHANGED detail_vars
    \/ run_bot_order(t) /\ UNCHANGED detail_vars
    \/ \E raises \in BOOLEAN : run_bot_draw(t, raises) /\ UNCHANGED detail_vars
    \/ run_bot_wait(t) /\ UNCHANGED detail_vars
    \/ run_bot_except(t) /\ UNCHANGED detail_vars

run_bot(t) == run_bot_step(t, AppOutcomes)

Next ==
    \/ \E v \in AppInputs : update_settings(v) /\ UNCHANGED <<last, last_fill, detail_vars>>
    \/ \E v \in AppInputs : start_bot(v) /\ UNCHANGED <<last, last_fill, detail_vars>>
    \/ stop_bot /\ UNCHANGED <<last, last_fill, detail_vars>>
    \/ \E t \in DOMAIN threads : run_bot(t)

Spec == Init /\ [][Next]_vars

\* the strategy outcomes the threads meet when only Start, Stop and the threads
\* act: a cycle in which one strategy raises and the others place an order
PollingOutcomes ==
    { [n \in StrategyNames |-> IF n = "Supertrend" THEN "raise" ELSE "buy"] }

polling(t) == run_bot_step(t, PollingOutcomes)

\* the Start and Stop buttons and the polling threads alone
NextPolling ==
    \/ start_bot(DefaultVars) /\ UNCHANGED <<last, last_fill, detail_vars>>
    \/ stop_bot /\ UNCHANGED <<last, last_fill, detail_vars>>
    \/ \E t \in DOMAIN threads : polling(t)

\* every started thread that can take a step is scheduled again, and its
\* sleeps and calls return
SpecFair ==
    /\ Init
    /\ [][NextPolling]_vars
    /\ \A t \in 1..MaxThreads : WF_vars(t \in DOMAIN threads /\ polling(t))

-----------------------------------------------------------------------------
(* The TradingBot object and its window driven call by call *)

Call(op, arg, ret) == last' = [op |-> op, arg |-> arg, ret |-> ret]

API_add_strategy ==
    /\ add_strategy(TradingStrategy)
    /\ Call("add_strategy", TradingStrategy.name, None)
    /\ UNCHANGED <<gui_vars, last_fill>>

API_fetch_data(ok, nbars) ==
    /\ fetch_data(ok, nbars)
    /\ Call("fetch_data", ok, FetchResult(ok, nbars))
    /\ UNCHANGED <<gui_vars, last_fill>>

API_run_strategies(outcome) ==
    /\ run_strategies(outcome)
    /\ last' = [op |-> "run_strategies", arg |-> outcome,
                ret |-> RunReturn(data, strategies, outcome),
                calls |-> RunCalls(data, strategies, outcome)]
    /\ UNCHANGED <<gui_vars, last_fill>>

API_get_combined_signal(mode) ==
    /\ get_combined_signal(mode)
    /\ Call("get_combined_signal", mode, CombinedSignal(current_signals, mode))
    /\ UNCHANGED <<gui_vars, last_fill>>

API_execute_order(signal) ==
    /\ execute_order(signal)
    /\ Call("execute_order", signal, OrderGate(signal, in_position).ret)
    /\ UNCHANGED gui_vars

API_update_settings(v) ==
    /\ update_settings(v)
    /\ Call("update_settings", v, None)
    /\ UNCHANGED last_fill

API_start_bot(v) ==
    /\ start_bot(v)
    /\ Call("start_bot", v, None)
    /\ UNCHANGED last_fill

API_stop_bot ==
    /\ stop_bot
    /\ Call("stop_bot", None, None)
    /\ UNCHANGED last_fill

NextAPI ==
    \/ API_add_strategy /\ UNCHANGED detail_vars
    \/ \E ok \in BOOLEAN, nbars \in 0..MaxBars : API_fetch_data(ok, nbars) /\ UNCHANGED detail_vars
    \/ \E outcome \in CycleOutcomes : API_run_strategies(outcome) /\ UNCHANGED detail_vars
    \/ \E mode \in CycleModes : API_get_combined_signal(mode) /\ UNCHANGED detail_vars
    \/ \E signal \in OrderSignals : API_execute_order(signal) /\ UNCHANGED detail_vars
    \/ \E v \in GuiInputs : API_update_settings(v) /\ UNCHANGED detail_vars
    \/ \E v \in GuiInputs : API_start_bot(v) /\ UNCHANGED detail_vars
    \/ API_stop_bot /\ UNCHANGED detail_vars

SpecAPI == Init /\ [][NextAPI]_vars

\* form contents with a text that is no number in each of the four tabs in
\* turn, next to forms that convert
FormInputs ==
    GuiInputs \cup
    { [DefaultVars EXCEPT !.st_period = "", !.gc_active = FALSE],
      [DefaultVars EXCEPT !.st_period = "7", !.gc_short_period = "20", !.bb_period = "x"],
      [DefaultVars EXCEPT !.st_multiplier = "2", !.bb_std_dev = "two", !.fr_active = FALSE],
      [DefaultVars EXCEPT !.gc_long_period = "50", !.bb_period = "10", !.fr_threshold = "0.2"] }

\* the settings form and the Start and Stop buttons alone
NextForm ==
    \/ \E v \in FormInputs : API_update_settings(v) /\ UNCHANGED detail_vars
    \/ \E v \in FormInputs : API_start_bot(v) /\ UNCHANGED detail_vars
    \/ API_stop_bot /\ UNCHANGED detail_vars

SpecForm == Init /\ [][NextForm]_vars

\* the runner and the aggregator over every combination of strategy outcomes
NextSignals ==
    \/ \E ok \in BOOLEAN, nbars \in 0..MaxBars : API_fetch_data(ok, nbars) /\ UNCHANGED detail_vars
    \/ \E outcome \in [StrategyNames -> Outcomes] : API_run_strategies(outcome) /\ UNCHANGED detail_vars
    \/ \E mode \in Modes : API_get_combined_signal(mode) /\ UNCHANGED detail_vars

SpecSignals == Init /\ [][NextSignals]_vars

\* params dicts given to set_parameters: a switch-off, and a switch-on that
\* carries a period of 0 and a key no strategy has
ParamChoices ==
    { [is_active |-> FALSE],
      [is_active |-> TRUE, period |-> 0, window |-> 5] }

\* the strategies set_parameters is called on: one of each shape of
\* attributes, and the ones add_strategy appended
ParamTargets == {1, 2} \cup {k \in Nat : k > Len(setup_strategies)}

API_set_parameters(k, params) ==
    /\ strategies' = [strategies EXCEPT ![k] = set_parameters(@, params)]
    /\ UNCHANGED <<data, in_position, current_signals, exchange_orders>>
    /\ Call("set_parameters", [index |-> k, params |-> params], None)
    /\ UNCHANGED <<gui_vars, last_fill>>

\* the runner with strategies appended, switched and re-parameterised between runs
NextRunner ==
    \/ API_add_strategy /\ UNCHANGED detail_vars
    \/ \E k \in DOMAIN strategies \cap ParamTargets, params \in ParamChoices :
          API_set_parameters(k, params) /\ UNCHANGED detail_vars
    \/ \E ok \in BOOLEAN, nbars \in 0..MaxBars : API_fetch_data(ok, nbars) /\ UNCHANGED detail_vars
    \/ \E outcome \in CycleOutcomes : API_run_strategies(outcome) /\ UNCHANGED detail_vars

SpecRunner == Init /\ [][NextRunner]_vars

-----------------------------------------------------------------------------
(* update_settings on the UI thread against calculate on a polling thread *)

\* the two forms the user applies in turn: the defaults and one with every
\* parameter retyped
SettingsInputs ==
    { DefaultVars,
      [DefaultVars EXCEPT !.st_period = "7", !.st_multiplier = "2",
                          !.gc_short_period = "20", !.gc_long_period = "50",
                          !.bb_period = "10", !.bb_std_dev = "3", !.fr_threshold = "0.2"] }

\* the keys of the params dict of block k, in the order the dict is written
\* and set_parameters walks it
ParamKeys(k) ==
    CASE k = 1 -> <<"is_active", "period", "multiplier">>
      [] k = 2 -> <<"is_active", "short_period", "long_period">>
      [] k = 3 -> <<"is_active", "period", "num_std">>
      [] k = 4 -> <<"is_active", "threshold">>

\* the setattr calls of blocks k.. of update_settings on form v, in program order
RECURSIVE SetattrCalls(_, _)
SetattrCalls(k, v) ==
    IF k > 4 \/ ~ParamsOk(k, v) THEN << >>
    ELSE [j \in DOMAIN ParamKeys(k) |->
             [index |-> k, attr |-> ParamKeys(k)[j], value |-> Params(k, v)[ParamKeys(k)[j]]]]
         \o SetattrCalls(k + 1, v)

\* the attributes calculate of strategy s reads from self, in program order
\* (supertrend.py 72-74, golden_cross.py 39-40 and 50-51, bollinger_bands.py
\* 39-46, funding_rate.py 73-74)
AttributeReads(s) ==
    CASE s.name = "Supertrend" -> <<"period", "multiplier", "multiplier">>
      [] s.name = "Golden Cross" ->
            <<"short_period", "long_period", "short_period", "long_period">>
      [] s.name = "Bollinger Bands" -> <<"period", "period", "num_std", "num_std">>
      [] s.name = "Funding Rate" -> <<"threshold", "threshold">>
      [] OTHER -> << >>

\* the UI thread enters update_settings
settings_begin(v) ==
    /\ ui_call = << >>
    /\ ui_call' = SetattrCalls(1, v)
    /\ UNCHANGED <<bot_vars, gui_vars, last, last_fill, calc_call, eval_vars>>

\* the next setattr of set_parameters; the strategies have every key they are given
settings_setattr ==
    /\ ui_call # << >>
    /\ LET w == Head(ui_call)
       IN  strategies' = [strategies EXCEPT ![w.index] = [@ EXCEPT ![w.attr] = w.value]]
    /\ ui_call' = Tail(ui_call)
    /\ UNCHANGED <<data, in_position, current_signals, exchange_orders, gui_vars, last,
                   last_fill, calc_call, eval_vars>>

\* run_strategies on a polling thread calls calculate of active strategy k
calculate_begin(k) ==
    /\ calc_call = NoCall
    /\ data # NoneFrame
    /\ strategies[k].is_active
    /\ calc_call' = [index |-> k, reads |-> << >>]
    /\ UNCHANGED <<bot_vars, gui_vars, last, last_fill, ui_call, eval_vars>>

\* calculate reads the next attribute it uses
calculate_read ==
    /\ calc_call # NoCall
    /\ Len(calc_call.reads) < Len(AttributeReads(strategies[calc_call.index]))
    /\ LET a == AttributeReads(strategies[calc_call.index])[Len(calc_call.reads) + 1]
       IN  calc_call' = [calc_call EXCEPT !.reads =
                            Append(@, [attr |-> a, value |-> strategies[calc_call.index][a]])]
    /\ UNCHANGED <<bot_vars, gui_vars, last, last_fill, ui_call, eval_vars>>

calculate_return ==
    /\ calc_call # NoCall
    /\ Len(calc_call.reads) = Len(AttributeReads(strategies[calc_call.index]))
    /\ calc_call' = NoCall
    /\ UNCHANGED <<bot_vars, gui_vars, last, last_fill, ui_call, eval_vars>>

NextSettings ==
    \/ fetch_data(TRUE, MaxBars) /\ UNCHANGED <<gui_vars, last, last_fill, detail_vars>>
    \/ \E v \in SettingsInputs : settings_begin(v)
    \/ settings_setattr
    \/ \E k \in DOMAIN strategies : calculate_begin(k)
    \/ calculate_read
    \/ calculate_return

SpecSettings == Init /\ [][NextSettings]_vars

-----------------------------------------------------------------------------
(* The strategies on a candle series: calculate, then get_signal on its frame *)

\* prices of the candles in the model
Prices == 1..3

\* candles, by the three prices the strategies read
Candles ==
    {c \in [high : Prices, low : Prices, close : Prices] :
        c.low <= c.close /\ c.close <= c.high}

FlatCandles == {c \in Candles : c.high = c.low}

\* every series of at most MaxLen candles of C
SeriesOf(C) == UNION {[1..n -> C] : n \in 0..MaxLen}

\* every series of at most MaxCloses candles whose three prices are equal
CloseSeries == UNION {[1..n -> FlatCandles] : n \in 0..MaxCloses}

\* a float cell: not-a-number or a number; numbers are kept as exact integers,
\* each column scaled by the factor its comment names
NaN == [nan |-> TRUE, v |-> 0]

Num(n) == [nan |-> FALSE, v |-> n]

\* comparisons of floats: every comparison with NaN is False
Gt(a, b) == ~a.nan /\ ~b.nan /\ a.v > b.v

Lt(a, b) == ~a.nan /\ ~b.nan /\ a.v < b.v

Ge(a, b) == ~a.nan /\ ~b.nan /\ a.v >= b.v

Le(a, b) == ~a.nan /\ ~b.nan /\ a.v <= b.v

Abs(n) == IF n < 0 THEN -n ELSE n

Max(a, b) == IF a >= b THEN a ELSE b

\* x[i-w+1] + ... + x[i]
RECURSIVE WindowSum(_, _, _)
WindowSum(x, i, w) == IF w = 0 THEN 0 ELSE x[i] + WindowSum(x, i - 1, w - 1)

\* Series.rolling(w).mean() at row i, times w: NaN until w rows are there
RollingSum(x, i, w) == IF w < 1 \/ i < w THEN NaN ELSE Num(WindowSum(x, i, w))

\* SupertrendStrategy.tr: the largest of the three ranges; on the first row
\* previous_close is NaN and max(axis=1) skips the two ranges made from it
Supertrend_tr(candles) ==
    [i \in DOMAIN candles |->
        IF i = 1 THEN Abs(candles[i].high - candles[i].low)
        ELSE Max(Abs(candles[i].high - candles[i].low),
                 Max(Abs(candles[i].high - candles[i - 1].close),
                     Abs(candles[i].low - candles[i - 1].close)))]

\* SupertrendStrategy.atr, times period
Supertrend_atr(candles, period) ==
    [i \in DOMAIN candles |-> RollingSum(Supertrend_tr(candles), i, period)]

\* the frame before the loop; upperband and lowerband are times 2 * period
Supertrend_bands(self, candles) ==
    [i \in DOMAIN candles |->
        LET atr == Supertrend_atr(candles, self.period)[i]
            hl2 == self.period * (candles[i].high + candles[i].low)
        IN  [close |-> candles[i].close,
             atr |-> atr,
             upperband |-> IF atr.nan THEN NaN ELSE Num(hl2 + 2 * self.multiplier * atr.v),
             lowerband |-> IF atr.nan THEN NaN ELSE Num(hl2 - 2 * self.multiplier * atr.v),
             in_uptrend |-> TRUE]]

\* the loop as it would be with the bands of each row computed for that row
\* alone, nothing carried forward from the row before
RECURSIVE Supertrend_loop_NoCarry(_, _, _)
Supertrend_loop_NoCarry(self, rows, current) ==
    IF current > Len(rows) THEN rows
    ELSE LET row == rows[current]
             prev == rows[current - 1]
             close == Num(2 * self.period * row.close)
             new == IF Gt(close, prev.upperband) THEN [row EXCEPT !.in_uptrend = TRUE]
                    ELSE IF Lt(close, prev.lowerband) THEN [row EXCEPT !.in_uptrend = FALSE]
                    ELSE [row EXCEPT !.in_uptrend = prev.in_uptrend]
         IN  Supertrend_loop_NoCarry(self, [rows EXCEPT ![current] = new], current + 1)

\* for current in range(1, len(data.index)), rows counted from 1
RECURSIVE Supertrend_loop(_, _, _)
Supertrend_loop(self, rows, current) ==
    IF current > Len(rows) THEN rows
    ELSE LET row == rows[current]
             prev == rows[current - 1]
             close == Num(2 * self.period * row.close)
             new == IF Gt(close, prev.upperband) THEN [row EXCEPT !.in_uptrend = TRUE]
                    ELSE IF Lt(close, prev.lowerband) THEN [row EXCEPT !.in_uptrend = FALSE]
                    ELSE [row EXCEPT
                            !.in_uptrend = prev.in_uptrend,
                            !.lowerband = IF prev.in_uptrend /\ Lt(@, prev.lowerband)
                                          THEN prev.lowerband ELSE @,
                            !.upperband = IF ~prev.in_uptrend /\ Gt(@, prev.upperband)
                                          THEN prev.upperband ELSE @]
         IN  Supertrend_loop(self, [rows EXCEPT ![current] = new], current + 1)

Supertrend_calculate(self, candles) == Supertrend_loop(self, Supertrend_bands(self, candles), 2)

Supertrend_get_signal(frame) ==
    LET last_row_index == Len(frame)
        previous_row_index == last_row_index - 1
    IN  IF previous_row_index < 1 THEN "hold"
        ELSE IF ~frame[previous_row_index].in_uptrend /\ frame[last_row_index].in_uptrend
        THEN "buy"
        ELSE IF frame[previous_row_index].in_uptrend /\ ~frame[last_row_index].in_uptrend
        THEN "sell"
        ELSE "hold"

\* the crossover loop as it would be if an undefined average of the previous
\* row counted as below (or above) the other one
GoldenCross_calculate_NaNCrosses(self, candles) ==
    LET close == [i \in DOMAIN candles |-> candles[i].close]
        scaled(r, factor) == IF r.nan THEN NaN ELSE Num(r.v * factor)
        MA_short == [i \in DOMAIN candles |->
                        scaled(RollingSum(close, i, self.short_period), self.long_period)]
        MA_long == [i \in DOMAIN candles |->
                       scaled(RollingSum(close, i, self.long_period), self.short_period)]
    IN  [i \in DOMAIN candles |->
            [close |-> close[i],
             MA_short |-> MA_short[i],
             MA_long |-> MA_long[i],
             golden_cross |-> /\ i >= 2
                              /\ ~Gt(MA_short[i - 1], MA_long[i - 1])
                              /\ Gt(MA_short[i], MA_long[i]),
             death_cross |-> /\ i >= 2
                             /\ ~Lt(MA_short[i - 1], MA_long[i - 1])
                             /\ Lt(MA_short[i], MA_long[i])]]

\* the crossover loop as it would be with strict comparisons on the previous row
GoldenCross_calculate_StrictBefore(self, candles) ==
    LET close == [i \in DOMAIN candles |-> candles[i].close]
        scaled(r, factor) == IF r.nan THEN NaN ELSE Num(r.v * factor)
        MA_short == [i \in DOMAIN candles |->
                        scaled(RollingSum(close, i, self.short_period), self.long_period)]
        MA_long == [i \in DOMAIN candles |->
                       scaled(RollingSum(close, i, self.long_period), self.short_period)]
    IN  [i \in DOMAIN candles |->
            [close |-> close[i],
             MA_short |-> MA_short[i],
             MA_long |-> MA_long[i],
             golden_cross |-> /\ i >= 2
                              /\ Lt(MA_short[i - 1], MA_long[i - 1])
                              /\ Gt(MA_short[i], MA_long[i]),
             death_cross |-> /\ i >= 2
                             /\ Gt(MA_short[i - 1], MA_long[i - 1])
                             /\ Lt(MA_short[i], MA_long[i])]]

\* the two averages are times short_period * long_period; the loop runs over
\* the rows from the second one on
GoldenCross_calculate(self, candles) ==
    LET close == [i \in DOMAIN candles |-> candles[i].close]
        scaled(r, factor) == IF r.nan THEN NaN ELSE Num(r.v * factor)
        MA_short == [i \in DOMAIN candles |->
                        scaled(RollingSum(close, i, self.short_period), self.long_period)]
        MA_long == [i \in DOMAIN candles |->
                       scaled(RollingSum(close, i, self.long_period), self.short_period)]
    IN  [i \in DOMAIN candles |->
            [close |-> close[i],
             MA_short |-> MA_short[i],
             MA_long |-> MA_long[i],
             golden_cross |-> /\ i >= 2
                              /\ Le(MA_short[i - 1], MA_long[i - 1])
                              /\ Gt(MA_short[i], MA_long[i]),
             death_cross |-> /\ i >= 2
                             /\ Ge(MA_short[i - 1], MA_long[i - 1])
                             /\ Lt(MA_short[i], MA_long[i])]]

\* .iloc[-1] of an empty column raises IndexError
GoldenCross_get_signal(frame) ==
    IF Len(frame) = 0 THEN "raise"
    ELSE IF frame[Len(frame)].golden_cross THEN "buy"
    ELSE IF frame[Len(frame)].death_cross THEN "sell"
    ELSE "hold"

\* a band of the Bollinger frame: mean + sign * num_std * std, held as the
\* window sum (mean times period) and the sum of squared deviations times
\* period (std squared times period * (period - 1))
NaNBand == [nan |-> TRUE, sum |-> 0, dev |-> 0]

\* the test as it would be written as the negation of close <= bb_upper
AboveUpper_NotBelow(close, band, period, num_std) ==
    LET d == period * close - band.sum
    IN  ~(~band.nan /\ (d <= 0 \/ d * d * (period - 1) <= num_std * num_std * period * band.dev))

\* close > bb_upper
AboveUpper(close, band, period, num_std) ==
    LET d == period * close - band.sum
    IN  ~band.nan /\ d > 0 /\ d * d * (period - 1) > num_std * num_std * period * band.dev

\* the test as it would be with close <= bb_lower
BelowLower_OrEqual(close, band, period, num_std) ==
    LET d == period * close - band.sum
    IN  ~band.nan /\ d <= 0 /\ d * d * (period - 1) >= num_std * num_std * period * band.dev

\* close < bb_lower
BelowLower(close, band, period, num_std) ==
    LET d == period * close - band.sum
    IN  ~band.nan /\ d < 0 /\ d * d * (period - 1) > num_std * num_std * period * band.dev

\* rolling(period).std() is the sample deviation: NaN until period rows are
\* there, and always NaN for a window of one row
BollingerBands_calculate(self, candles) ==
    LET close == [i \in DOMAIN candles |-> candles[i].close]
        squares == [i \in DOMAIN candles |-> candles[i].close * candles[i].close]
        bb_middle == [i \in DOMAIN candles |-> RollingSum(close, i, self.period)]
        bb_std == [i \in DOMAIN candles |->
                      IF self.period < 2 \/ i < self.period THEN NaN
                      ELSE Num(self.period * WindowSum(squares, i, self.period)
                               - bb_middle[i].v * bb_middle[i].v)]
        band == [i \in DOMAIN candles |->
                    IF bb_middle[i].nan \/ bb_std[i].nan THEN NaNBand
                    ELSE [nan |-> FALSE, sum |-> bb_middle[i].v, dev |-> bb_std[i].v]]
        above_upper == [i \in DOMAIN candles |->
                           AboveUpper(close[i], band[i], self.period, self.num_std)]
        below_lower == [i \in DOMAIN candles |->
                           BelowLower(close[i], band[i], self.period, self.num_std)]
    IN  [i \in DOMAIN candles |->
            [close |-> close[i],
             bb_middle |-> bb_middle[i],
             bb_std |-> bb_std[i],
             bb_upper |-> band[i],
             bb_lower |-> band[i],
             above_upper |-> above_upper[i],
             below_lower |-> below_lower[i],
             bb_buy_signal |-> i >= 2 /\ below_lower[i - 1] /\ ~below_lower[i],
             bb_sell_signal |-> i >= 2 /\ above_upper[i - 1] /\ ~above_upper[i]]]

BollingerBands_get_signal(frame) ==
    IF Len(frame) = 0 THEN "raise"
    ELSE IF frame[Len(frame)].bb_buy_signal THEN "buy"
    ELSE IF frame[Len(frame)].bb_sell_signal THEN "sell"
    ELSE "hold"

\* values np.random.normal(0, 0.0005, len(data)) gives a row in the model, in
\* units of 1/100000
RateDraws == {-200, 0, 200}

\* rates is the draw of this call
FundingRate_calculate(self, candles, rates) ==
    [i \in DOMAIN candles |->
        [close |-> candles[i].close,
         funding_rate |-> rates[i],
         fr_buy_signal |-> rates[i] < -self.threshold,
         fr_sell_signal |-> rates[i] > self.threshold]]

FundingRate_get_signal(frame) ==
    IF Len(frame) = 0 THEN "raise"
    ELSE IF frame[Len(frame)].fr_buy_signal THEN "buy"
    ELSE IF frame[Len(frame)].fr_sell_signal THEN "sell"
    ELSE "hold"

\* the strategy objects and series the evaluation of the strategy of that
\* name is run on
StrategyInputs(name) ==
    CASE name = "Supertrend" ->
            {[strategy |-> [SupertrendStrategy EXCEPT !.period = p, !.multiplier = m],
              series |-> series] :
                p \in 1..3, m \in 1..2, series \in SeriesOf(Candles)}
      [] name = "Golden Cross" ->
            {[strategy |-> [GoldenCrossStrategy EXCEPT !.short_period = p[1],
                                                       !.long_period = p[2]],
              series |-> series] :
                p \in {<<1, 2>>, <<2, 3>>, <<2, 2>>}, series \in CloseSeries}
      [] name = "Bollinger Bands" ->
            {[strategy |-> [BollingerBandsStrategy EXCEPT !.period = p, !.num_std = k],
              series |-> series] :
                p \in 1..3, k \in 1..2, series \in CloseSeries}
      [] name = "Funding Rate" ->
            {[strategy |-> FundingRateStrategy, series |-> series] :
                series \in SeriesOf({[high |-> 1, low |-> 1, close |-> 1]})}

InitStrategies ==
    /\ strategies = setup_strategies
    /\ data = NoneFrame
    /\ in_position = FALSE
    /\ current_signals = EmptyDict
    /\ exchange_orders = << >>
    /\ running = FALSE
    /\ start_button = "normal"
    /\ stop_button = "disabled"
    /\ threads = << >>
    /\ last = [op |-> "init", arg |-> None, ret |-> None]
    /\ last_fill = None
    /\ ui_call = << >>
    /\ calc_call = NoCall
    /\ \E name \in StrategyNames : input \in StrategyInputs(name)
    /\ output = NoOutput

\* calculate and get_signal have returned frame and signal
Returned(frame, signal) ==
    /\ output = NoOutput
    /\ output' = [returned |-> TRUE, frame |-> frame, signal |-> signal]
    /\ UNCHANGED <<bot_vars, gui_vars, last, last_fill, call_vars, input>>

Supertrend_evaluate ==
    /\ input.strategy.name = "Supertrend"
    /\ LET frame == Supertrend_calculate(input.strategy, input.series)
       IN  Returned(frame, Supertrend_get_signal(frame))

GoldenCross_evaluate ==
    /\ input.strategy.name = "Golden Cross"
    /\ LET frame == GoldenCross_calculate(input.strategy, input.series)
       IN  Returned(frame, GoldenCross_get_signal(frame))

BollingerBands_evaluate ==
    /\ input.strategy.name = "Bollinger Bands"
    /\ LET frame == BollingerBands_calculate(input.strategy, input.series)
       IN  Returned(frame, BollingerBands_get_signal(frame))

FundingRate_evaluate ==
    /\ input.strategy.name = "Funding Rate"
    /\ \E rates \in [DOMAIN input.series -> RateDraws] :
          LET frame == FundingRate_calculate(input.strategy, input.series, rates)
          IN  Returned(frame, FundingRate_get_signal(frame))

\* the frames calculate can return for the strategy and series of inp, each
\* with the signal get_signal reads off it
Evaluations(inp) ==
    CASE inp.strategy.name = "Supertrend" ->
            LET frame == Supertrend_calculate(inp.strategy, inp.series)
            IN  {[frame |-> frame, signal |-> Supertrend_get_signal(frame)]}
      [] inp.strategy.name = "Golden Cross" ->
            LET frame == GoldenCross_calculate(inp.strategy, inp.series)
            IN  {[frame |-> frame, signal |-> GoldenCross_get_signal(frame)]}
      [] inp.strategy.name = "Bollinger Bands" ->
            LET frame == BollingerBands_calculate(inp.strategy, inp.series)
            IN  {[frame |-> frame, signal |-> BollingerBands_get_signal(frame)]}
      [] inp.strategy.name = "Funding Rate" ->
            {[frame |-> FundingRate_calculate(inp.strategy, inp.series, rates),
              signal |-> FundingRate_get_signal(
                             FundingRate_calculate(inp.strategy, inp.series, rates))] :
                rates \in [DOMAIN inp.series -> RateDraws]}

\* calculate and get_signal called once more on the same object and series
evaluate_again ==
    /\ output.returned
    /\ "again" \notin DOMAIN output
    /\ \E e \in Evaluations(input) :
          output' = [returned |-> TRUE, frame |-> output.frame, signal |-> output.signal,
                     again |-> e]
    /\ UNCHANGED <<bot_vars, gui_vars, last, last_fill, call_vars, input>>

NextStrategies ==
    \/ Supertrend_evaluate
    \/ GoldenCross_evaluate
    \/ BollingerBands_evaluate
    \/ FundingRate_evaluate
    \/ evaluate_again

SpecStrategies == InitStrategies /\ [][NextStrategies]_vars

-----------------------------------------------------------------------------
(* Position gate *)

\* C1: the bot starts Flat, and every execute_order call follows the two-state
\* gate: buy while Flat goes Long and returns True, sell while Flat returns
\* False and stays Flat, sell while Long goes Flat and returns True, buy while
\* Long returns False and stays Long, any other signal returns False and
\* leaves the flag as it was.
C1_GateTransitions ==
    /\ in_position = FALSE
    /\ [][ last'.op = "execute_order" =>
             LET signal == last'.arg
                 ret == last'.ret
             IN  /\ (signal = "buy" /\ ~in_position) => (in_position' /\ ret = TRUE)
                 /\ (signal = "sell" /\ ~in_position) => (~in_position' /\ ret = FALSE)
                 /\ (signal = "sell" /\ in_position) => (~in_position' /\ ret = TRUE)
                 /\ (signal = "buy" /\ in_position) => (in_position' /\ ret = FALSE)
                 /\ signal \notin {"buy", "sell"} =>
                        (in_position' = in_position /\ ret = FALSE) ]_vars

\* a sell has closed the position a buy opened
C1_Witness ==
    /\ last.op = "execute_order"
    /\ last.arg = "sell"
    /\ last.ret = TRUE
    /\ ~in_position

\* C2: the execute_order calls that return True alternate buy, sell, buy, ...
\* starting with a buy; a buy right after a buy that returned True returns
\* False and the gate is Long after it.
C2_FillsAlternate ==
    [][ last'.op = "execute_order" =>
          /\ last'.ret = TRUE =>
                last'.arg = (IF last_fill = "buy" THEN "sell" ELSE "buy")
          /\ (last.op = "execute_order" /\ last.arg = "buy" /\ last.ret = TRUE
                /\ last'.arg = "buy") => (last'.ret = FALSE /\ in_position') ]_vars

\* a buy was refused while the last filled call was a buy
C2_Witness ==
    /\ last.op = "execute_order"
    /\ last.arg = "buy"
    /\ last.ret = FALSE
    /\ last_fill = "buy"
    /\ in_position

\* C4: the exchange receives exactly one order, of the side of the signal, in
\* every step that changes the position, and none in any other step.
C4_OrderOnEveryTransition ==
    [][ /\ in_position' # in_position =>
              exchange_orders' = Append(exchange_orders, last'.arg)
        /\ in_position' = in_position => exchange_orders' = exchange_orders ]_vars

\* C5: in_position changes in execute_order steps only; add_strategy,
\* fetch_data, run_strategies, get_combined_signal, update_settings, start_bot
\* and stop_bot leave it as it is.
C5_OnlyExecuteOrderWritesPosition ==
    [][ in_position' # in_position => last'.op = "execute_order" ]_vars

\* the flag is still set after the loop was stopped and started again
C5_Witness ==
    /\ in_position
    /\ last.op = "start_bot"
    /\ Len(threads) = 2

-----------------------------------------------------------------------------
(* Aggregation *)

\* the strategies voting v in current_signals
Votes(v) == {n \in DOMAIN current_signals : current_signals[n] = v}

Combined(mode) == last.op = "get_combined_signal" /\ last.arg = mode

\* C6: majority returns buy iff the buy count is strictly greater than the
\* sell and the hold count, sell iff the sell count is strictly greater than
\* the two others, hold in every other case (ties, empty set).
C6_MajorityStrict ==
    Combined("majority") =>
        LET b == Cardinality(Votes("buy"))
            s == Cardinality(Votes("sell"))
            h == Cardinality(Votes("hold"))
        IN  /\ last.ret = "buy" <=> (b > s /\ b > h)
            /\ last.ret = "sell" <=> (s > b /\ s > h)
            /\ last.ret = "hold" <=> ~(b > s /\ b > h) /\ ~(s > b /\ s > h)

\* {buy, buy, sell} gave buy
C6_Witness ==
    /\ Combined("majority")
    /\ Cardinality(Votes("buy")) = 2
    /\ Cardinality(Votes("sell")) = 1
    /\ Cardinality(Votes("hold")) = 0
    /\ last.ret = "buy"

\* C7: consensus returns buy iff the set is non-empty and all entries are buy,
\* sell iff it is non-empty and all are sell, hold otherwise.
C7_ConsensusUnanimous ==
    Combined("consensus") =>
        LET nonempty == DOMAIN current_signals # {}
            all(v) == Votes(v) = DOMAIN current_signals
        IN  /\ last.ret = "buy" <=> (nonempty /\ all("buy"))
            /\ last.ret = "sell" <=> (nonempty /\ all("sell"))
            /\ last.ret = "hold" <=> ~(nonempty /\ (all("buy") \/ all("sell")))

\* consensus asked of an empty signal set after data was fetched
C7_Witness ==
    /\ Combined("consensus")
    /\ DOMAIN current_signals = {}
    /\ data # NoneFrame
    /\ last.ret = "hold"

\* C8: any returns buy whenever some entry is buy, sell iff no entry is buy
\* and some entry is sell, hold iff every entry is hold or there is none.
C8_AnyBuyFirst ==
    Combined("any") =>
        /\ last.ret = "buy" <=> Votes("buy") # {}
        /\ last.ret = "sell" <=> (Votes("buy") = {} /\ Votes("sell") # {})
        /\ last.ret = "hold" <=> Votes("hold") = DOMAIN current_signals

\* hold, sell and buy are all present, the last strategy being the buy, and buy wins
C8_Witness ==
    /\ Combined("any")
    /\ DOMAIN current_signals = StrategyNames
    /\ current_signals["Supertrend"] = "hold"
    /\ current_signals["Golden Cross"] = "sell"
    /\ current_signals["Funding Rate"] = "buy"
    /\ last.ret = "buy"

\* C9: with a mode that is none of majority, consensus, any, the call returns
\* hold whatever current_signals holds, and changes nothing of the bot.
C9_UnknownModeHolds ==
    /\ [](\A mode \in Modes \ KnownModes : Combined(mode) => last.ret = "hold")
    /\ [][ (last'.op = "get_combined_signal" /\ last'.arg \notin KnownModes) =>
              UNCHANGED <<bot_vars, gui_vars>> ]_vars

\* an unknown mode met four buy votes
C9_Witness ==
    /\ Combined("all")
    /\ Votes("buy") = StrategyNames
    /\ last.ret = "hold"

-----------------------------------------------------------------------------
(* Runner *)

\* C10: after run_strategies on fetched data, an active strategy whose
\* calculate or get_signal raised has no entry in the returned mapping and
\* every other active strategy has its entry, with its signal, wherever it
\* stands in the list; the call returns.
C10_FailureIsolated ==
    (last.op = "run_strategies" /\ data # NoneFrame) =>
        \A i \in DOMAIN strategies :
            LET s == strategies[i]
                o == StrategyOutcome(s, last.arg)
            IN  s.is_active =>
                    /\ o = "raise" => s.name \notin DOMAIN last.ret
                    /\ o # "raise" => (s.name \in DOMAIN last.ret /\ last.ret[s.name].signal = o)

\* the second strategy raised; the first and the last have their entries
C10_Witness ==
    /\ last.op = "run_strategies"
    /\ data # NoneFrame
    /\ last.arg["Golden Cross"] = "raise"
    /\ "Supertrend" \in DOMAIN last.ret
    /\ "Funding Rate" \in DOMAIN last.ret
    /\ "Golden Cross" \notin DOMAIN last.ret

-----------------------------------------------------------------------------
(* Strategy runner *)

\* indices of the strategies run_strategies has to run
ActiveIndices == {i \in DOMAIN strategies : strategies[i].is_active}

\* the signals of the run that completed last, taken from the outcomes of the
\* active strategies alone
ActiveVotes ==
    LET voters == {i \in ActiveIndices : StrategyOutcome(strategies[i], last.arg) \in Signals}
    IN  [n \in {strategies[i].name : i \in voters} |->
            IF n \in DOMAIN last.arg THEN last.arg[n] ELSE "hold"]

\* C11: a strategy that is inactive when run_strategies executes is not
\* calculated (and so not asked for a signal), has no entry in the returned
\* mapping or in current_signals, and so casts no vote; every strategy class
\* constructs its instances inactive.
C11_InactiveSkipped ==
    /\ \A s \in {TradingStrategy, SupertrendStrategy, GoldenCrossStrategy,
                  BollingerBandsStrategy, FundingRateStrategy} : ~s.is_active
    /\ (last.op = "run_strategies" /\ data # NoneFrame) =>
          /\ {last.calls[j].index : j \in DOMAIN last.calls} = ActiveIndices
          /\ DOMAIN last.ret \subseteq {strategies[i].name : i \in ActiveIndices}
          /\ current_signals = ActiveVotes
          /\ \A mode \in Modes :
                CombinedSignal(current_signals, mode) = CombinedSignal(ActiveVotes, mode)

\* a run skipped a switched-off Supertrend and an appended strategy that was
\* never switched on, and ran the other three
C11_Witness ==
    /\ last.op = "run_strategies"
    /\ data # NoneFrame
    /\ Len(strategies) > Len(setup_strategies)
    /\ ActiveIndices = {2, 3, 4}
    /\ DOMAIN current_signals = {"Golden Cross", "Bollinger Bands", "Funding Rate"}

\* C12: run_strategies leaves bot.data as it was, rows and columns, and every
\* calculate call of the run is given that same candle frame: no frame handed
\* to a strategy carries a column another strategy added.
C12_SameCandles ==
    [][ last'.op = "run_strategies" =>
          /\ data' = data
          /\ \A j \in DOMAIN last'.calls :
                /\ last'.calls[j].data = data
                /\ \A i \in DOMAIN strategies :
                      last'.calls[j].data.columns \cap IndicatorColumns(strategies[i]) = {} ]_vars

\* Supertrend and Golden Cross both ran on the fetched frame; the band columns
\* are in Supertrend's result and not in Golden Cross's
C12_Witness ==
    /\ last.op = "run_strategies"
    /\ data # NoneFrame
    /\ data.len > 0
    /\ {"Supertrend", "Golden Cross"} \subseteq DOMAIN last.ret
    /\ "upperband" \in last.ret["Supertrend"].data.columns
    /\ "upperband" \notin last.ret["Golden Cross"].data.columns
    /\ "MA_50" \in last.ret["Golden Cross"].data.columns

-----------------------------------------------------------------------------
(* Parameters *)

\* C17: set_parameters overwrites the attributes the mapping names, creates no
\* attribute for a key the strategy does not have, leaves every other
\* attribute and every other strategy as they were, and takes any value (a
\* period of 0 is stored like any other).
C17_PartialUpdate ==
    [][ last'.op = "set_parameters" =>
          LET k == last'.arg.index
              params == last'.arg.params
          IN  /\ DOMAIN strategies' = DOMAIN strategies
              /\ \A i \in DOMAIN strategies \ {k} : strategies'[i] = strategies[i]
              /\ DOMAIN strategies'[k] = DOMAIN strategies[k]
              /\ \A a \in DOMAIN strategies[k] :
                    strategies'[k][a] = IF a \in DOMAIN params THEN params[a]
                                       ELSE strategies[k][a] ]_vars

\* Supertrend took is_active and a period of 0, kept its multiplier and got no
\* attribute for the unknown key; Golden Cross, which has no period, was
\* switched on by the same mapping and kept both of its periods
C17_Witness ==
    /\ last.op = "set_parameters"
    /\ last.arg.params = [is_active |-> TRUE, period |-> 0, window |-> 5]
    /\ strategies[1] = [name |-> "Supertrend", is_active |-> TRUE, period |-> 0,
                        multiplier |-> 3]
    /\ strategies[2] = [name |-> "Golden Cross", is_active |-> TRUE, short_period |-> 50,
                        long_period |-> 200]
    /\ last.arg.index = 2
    /\ \E i \in DOMAIN strategies : ~strategies[i].is_active

-----------------------------------------------------------------------------
(* Polling loop *)

\* thread t took a step
Stepped(t) == t \in DOMAIN threads /\ threads'[t] # threads[t]

\* the part of a cycle that is run only on a fetched frame
OnFrame == {"run", "charts", "combine", "execute", "order"}

\* C13: a polling cycle whose fetch fails (fetch_data returns None) changes no
\* bot state, at the fetch or later in that cycle, and goes straight to the
\* redraw and the wait: run_strategies, get_combined_signal and execute_order
\* are reached only with a fetched frame.
C13_FailedFetchSkipsCycle ==
    [][ \A t \in DOMAIN threads :
          /\ threads'[t].pc \in OnFrame => threads'[t].data # NoneFrame
          /\ (Stepped(t) /\ threads[t].pc = "fetch" /\ threads'[t].data = NoneFrame) =>
                (threads'[t].pc = "draw" /\ UNCHANGED bot_vars)
          /\ (Stepped(t) /\ threads[t].pc = "draw" /\ threads[t].data = NoneFrame) =>
                (threads'[t].pc \in {"wait", "except"} /\ UNCHANGED bot_vars) ]_vars

\* a fetch has failed in a cycle that follows a completed one: the frame, the
\* signals and the position of the earlier cycle are still there
C13_Witness ==
    \E t \in DOMAIN threads :
        /\ threads[t].pc = "draw"
        /\ threads[t].data = NoneFrame
        /\ data # NoneFrame
        /\ current_signals # EmptyDict
        /\ in_position

\* C14: an error raised in a polling cycle does not end run_bot: from the
\* handler the thread comes back to the loop test, and unless the flag has
\* been cleared it starts another cycle and fetches again.
C14_LoopSurvivesErrors ==
    \A t \in 1..MaxThreads :
        (t \in DOMAIN threads /\ threads[t].pc = "except")
            ~> (~running \/ (t \in DOMAIN threads /\ threads[t].pc = "fetch"))

\* an error was raised in a cycle that had run its strategies: the thread is
\* in the handler and the flag is still set
C14_Witness ==
    \E t \in DOMAIN threads : threads[t].pc = "except" /\ running /\ current_signals # EmptyDict

\* the steps that follow one another inside a cycle
CycleSuccessors ==
    [run |-> {"charts"}, charts |-> {"combine", "except"}, combine |-> {"execute", "draw"},
     execute |-> {"order", "draw"}, order |-> {"draw"}]

-----------------------------------------------------------------------------
(* Settings against a running cycle *)

\* C15: every attribute value a calculate call has read belongs to one and
\* the same applied form: no call sees some parameters of one update and
\* others of another.
C15_NoTornRead ==
    calc_call # NoCall =>
        \E v \in SettingsInputs :
            \A j \in DOMAIN calc_call.reads :
                calc_call.reads[j].value = Params(calc_call.index, v)[calc_call.reads[j].attr]

-----------------------------------------------------------------------------
(* Strategies on short series *)

\* C18: on the frame calculate makes of a series of fewer than 2 rows,
\* get_signal of each of the four strategies returns 'hold' and does not raise.
C18_ShortFrameHolds ==
    (output.returned /\ Len(input.series) < 2) => output.signal = "hold"

\* the number of bars the indicator of strategy s needs
Lookback(s) ==
    CASE s.name = "Supertrend" -> s.period
      [] s.name = "Golden Cross" -> s.long_period
      [] s.name = "Bollinger Bands" -> s.period
      [] OTHER -> 0

\* every indicator value of the frame is NaN and no row carries an event flag
\* or a change of trend
NothingDefined(s, frame) ==
    CASE s.name = "Supertrend" ->
            /\ \A i \in DOMAIN frame :
                  frame[i].atr.nan /\ frame[i].upperband.nan /\ frame[i].lowerband.nan
            /\ \A i \in DOMAIN frame : i >= 2 => frame[i].in_uptrend = frame[i - 1].in_uptrend
      [] s.name = "Golden Cross" ->
            \A i \in DOMAIN frame :
                frame[i].MA_long.nan /\ ~frame[i].golden_cross /\ ~frame[i].death_cross
      [] s.name = "Bollinger Bands" ->
            \A i \in DOMAIN frame :
                /\ frame[i].bb_middle.nan /\ frame[i].bb_std.nan
                /\ frame[i].bb_upper.nan /\ frame[i].bb_lower.nan
                /\ ~frame[i].bb_buy_signal /\ ~frame[i].bb_sell_signal
      [] OTHER -> TRUE

\* C19: on a series with fewer bars than the lookback (period for Supertrend
\* and Bollinger Bands, long_period for Golden Cross) every indicator value is
\* undefined, no row has an event flag or a trend flip, and get_signal
\* returns 'hold'.
C19_ShortSeriesUndefined ==
    (output.returned /\ Len(input.series) < Lookback(input.strategy)) =>
        (NothingDefined(input.strategy, output.frame) /\ output.signal = "hold")

\* C20: in the frame of Supertrend, on consecutive bars with defined bands,
\* the lower band does not fall while in_uptrend is true at both bars and the
\* upper band does not rise while it is false at both.
C20_BandsRatchet ==
    (output.returned /\ input.strategy.name = "Supertrend") =>
        \A i \in DOMAIN output.frame :
            LET row == output.frame[i]
                prev == output.frame[i - 1]
                defined == ~row.lowerband.nan /\ ~prev.lowerband.nan
            IN  (i >= 2 /\ defined) =>
                    /\ (prev.in_uptrend /\ row.in_uptrend) =>
                          row.lowerband.v >= prev.lowerband.v
                    /\ (~prev.in_uptrend /\ ~row.in_uptrend) =>
                          row.upperband.v <= prev.upperband.v

-----------------------------------------------------------------------------
(* Moving-average crossovers *)

GoldenCrossReturned == output.returned /\ input.strategy.name = "Golden Cross"

\* the closes rise strictly up to row p and fall strictly from it, and each
\* part, the peak counted in both, has at least w rows
RisesThenFalls(series, w) ==
    \E p \in DOMAIN series :
        /\ p >= w
        /\ Len(series) - p + 1 >= w
        /\ \A i \in 2..p : series[i].close > series[i - 1].close
        /\ \A i \in (p + 1)..Len(series) : series[i].close < series[i - 1].close

GoldenRows(frame) == {i \in DOMAIN frame : frame[i].golden_cross}

DeathRows(frame) == {i \in DOMAIN frame : frame[i].death_cross}

\* C21 as stated: on a close series that rises strictly and then falls
\* strictly, each part long enough for both windows, calculate marks exactly
\* one row golden_cross and exactly one row death_cross, the golden_cross row
\* first.
C21_OneGoldenThenOneDeath ==
    (/\ GoldenCrossReturned
     /\ RisesThenFalls(input.series,
                       Max(input.strategy.short_period, input.strategy.long_period)))
        => /\ Cardinality(GoldenRows(output.frame)) = 1
           /\ Cardinality(DeathRows(output.frame)) = 1
           /\ \A g \in GoldenRows(output.frame) :
                 \A d \in DeathRows(output.frame) : g < d

\* C21 amended: with short_period < long_period, on such a series calculate
\* marks no row golden_cross and exactly one row death_cross, after the peak.
C21_NoGoldenOneDeath ==
    (/\ GoldenCrossReturned
     /\ input.strategy.short_period < input.strategy.long_period
     /\ RisesThenFalls(input.series, input.strategy.long_period))
        => /\ GoldenRows(output.frame) = {}
           /\ Cardinality(DeathRows(output.frame)) = 1
           /\ \A d \in DeathRows(output.frame) :
                 \E p \in 1..(d - 1) :
                     \A i \in DOMAIN input.series :
                         input.series[i].close <= input.series[p].close

C21_Witness ==
    /\ GoldenCrossReturned
    /\ input.strategy.short_period < input.strategy.long_period
    /\ RisesThenFalls(input.series, input.strategy.long_period)
    /\ output.frame[Len(output.frame)].death_cross

\* both averages are defined at rows i - 1 and i
AveragesDefined(frame, i) ==
    /\ ~frame[i - 1].MA_short.nan /\ ~frame[i - 1].MA_long.nan
    /\ ~frame[i].MA_short.nan /\ ~frame[i].MA_long.nan

\* C22: golden_cross is set at row i iff there is a row before it, both
\* averages are defined at both rows, short <= long at the row before and
\* short > long at row i; death_cross likewise with >= and <; so no event is
\* set where an average is undefined at either row, and none on the first row
\* where both averages are defined.
C22_CrossoverRule ==
    GoldenCrossReturned =>
        \A i \in DOMAIN output.frame :
            LET row == output.frame[i]
                prev == output.frame[i - 1]
            IN  /\ row.golden_cross <=>
                      /\ i >= 2
                      /\ AveragesDefined(output.frame, i)
                      /\ prev.MA_short.v <= prev.MA_long.v
                      /\ row.MA_short.v > row.MA_long.v
                /\ row.death_cross <=>
                      /\ i >= 2
                      /\ AveragesDefined(output.frame, i)
                      /\ prev.MA_short.v >= prev.MA_long.v
                      /\ row.MA_short.v < row.MA_long.v
                /\ (i = 1 \/ ~AveragesDefined(output.frame, i)) =>
                      (~row.golden_cross /\ ~row.death_cross)

\* a golden cross right after the row where both averages became defined,
\* equal to each other
C22_Witness ==
    /\ GoldenCrossReturned
    /\ \E i \in DOMAIN output.frame :
          /\ i >= 3
          /\ output.frame[i].golden_cross
          /\ output.frame[i - 1].MA_short.v = output.frame[i - 1].MA_long.v
          /\ output.frame[i - 2].MA_long.nan

-----------------------------------------------------------------------------
(* Volatility bands *)

BollingerReturned == output.returned /\ input.strategy.name = "Bollinger Bands"

\* close - mean, times period, and (num_std * std) squared, times
\* period * period * (period - 1), of a row of the Bollinger frame
Offset(row, s) == s.period * row.close - row.bb_middle.v

Width(row, s) == s.num_std * s.num_std * s.period * row.bb_std.v

BandsDefined(row) == ~row.bb_middle.nan /\ ~row.bb_std.nan

\* close < lowerband, close >= lowerband, close > upperband, close <= upperband
CloseLtLower(row, s) ==
    /\ BandsDefined(row)
    /\ Offset(row, s) < 0
    /\ Offset(row, s) * Offset(row, s) * (s.period - 1) > Width(row, s)

CloseGeLower(row, s) ==
    /\ BandsDefined(row)
    /\ \/ Offset(row, s) >= 0
       \/ Offset(row, s) * Offset(row, s) * (s.period - 1) <= Width(row, s)

CloseGtUpper(row, s) ==
    /\ BandsDefined(row)
    /\ Offset(row, s) > 0
    /\ Offset(row, s) * Offset(row, s) * (s.period - 1) > Width(row, s)

CloseLeUpper(row, s) ==
    /\ BandsDefined(row)
    /\ \/ Offset(row, s) <= 0
       \/ Offset(row, s) * Offset(row, s) * (s.period - 1) <= Width(row, s)

\* what get_signal makes of the two flags of a row
SignalOfFlags(buy, sell) == IF buy THEN "buy" ELSE IF sell THEN "sell" ELSE "hold"

\* C23: bb_buy_signal is set at row i iff there is a row before it, the close
\* was below the lower band there and is at or above the lower band at row i;
\* bb_sell_signal likewise with above the upper band and at or below it;
\* get_signal is decided by the two flags of the last row, buy first.
C23_ReentryRule ==
    BollingerReturned =>
        /\ \A i \in DOMAIN output.frame :
              LET row == output.frame[i]
                  prev == output.frame[i - 1]
              IN  /\ row.bb_buy_signal <=>
                        /\ i >= 2
                        /\ CloseLtLower(prev, input.strategy)
                        /\ CloseGeLower(row, input.strategy)
                  /\ row.bb_sell_signal <=>
                        /\ i >= 2
                        /\ CloseGtUpper(prev, input.strategy)
                        /\ CloseLeUpper(row, input.strategy)
        /\ Len(output.frame) >= 1 =>
              output.signal =
                  SignalOfFlags(output.frame[Len(output.frame)].bb_buy_signal,
                                output.frame[Len(output.frame)].bb_sell_signal)

\* a frame whose last row re-enters the bands from below, so that get_signal
\* says buy
C23_Witness ==
    /\ BollingerReturned
    /\ Len(output.frame) >= 2
    /\ output.frame[Len(output.frame) - 1].below_lower
    /\ output.frame[Len(output.frame)].bb_buy_signal
    /\ output.signal = "buy"

\* the closes of the series are all equal to value
HeldAt(series, value) == \A i \in DOMAIN series : series[i].close = value

\* C24: on a close series held at one value for period + 1 bars calculate
\* returns a frame whose defined middle, upper and lower bands equal that
\* value, with no bb_buy_signal and no bb_sell_signal on any row, and
\* get_signal returns 'hold'.
C24_ConstantSeriesHolds ==
    \A value \in Prices :
        (/\ BollingerReturned
         /\ Len(input.series) = input.strategy.period + 1
         /\ HeldAt(input.series, value))
            => /\ Len(output.frame) = Len(input.series)
               /\ \A i \in DOMAIN output.frame :
                     LET row == output.frame[i]
                     IN  /\ ~row.bb_middle.nan =>
                               row.bb_middle.v = input.strategy.period * value
                         /\ ~row.bb_upper.nan =>
                               /\ row.bb_upper.sum = input.strategy.period * value
                               /\ row.bb_upper.dev = 0
                         /\ ~row.bb_lower.nan =>
                               /\ row.bb_lower.sum = input.strategy.period * value
                               /\ row.bb_lower.dev = 0
                         /\ ~row.bb_buy_signal /\ ~row.bb_sell_signal
               /\ output.signal = "hold"

\* such a series with bands defined on its last two rows
C24_Witness ==
    /\ BollingerReturned
    /\ Len(input.series) = input.strategy.period + 1
    /\ \E value \in Prices : HeldAt(input.series, value)
    /\ ~output.frame[Len(output.frame)].bb_upper.nan
    /\ ~output.frame[Len(output.frame) - 1].bb_lower.nan
    /\ output.signal = "hold"

-----------------------------------------------------------------------------
(* Repeated evaluation *)

\* C25: calculate called twice on the same unmodified series with the same
\* parameters returns the same frame, every column equal row by row, and
\* get_signal the same signal, for each of the four strategies.
C25_SameFrameTwice ==
    (output.returned /\ "again" \in DOMAIN output) =>
        /\ output.again.frame = output.frame
        /\ output.again.signal = output.signal

-----------------------------------------------------------------------------
(* Trend flag *)

SupertrendReturned == output.returned /\ input.strategy.name = "Supertrend"

\* close of a row on the scale of the bands
ScaledClose(row, s) == Num(2 * s.period * row.close)

-----------------------------------------------------------------------------
(* Threads *)

\* the run_bot threads that have not returned
Live == {t \in DOMAIN threads : threads[t].pc # "done"}

\* C27: at most one run_bot thread is live at any time, whatever the order of
\* the Start and Stop clicks and the steps of the threads.
C27_OneLiveThread == Cardinality(Live) <= 1

\* between cycles: at the loop test, in the wait loop or in the error handler
BetweenCycles == {"while", "wait", "except"}

\* C28: once stop_bot has cleared the flag, and unless start_bot sets it
\* again, every run_bot thread ends; a thread that is between cycles then (in
\* the wait loop, in the error handler or at the loop test) goes to the loop
\* test and ends there without beginning another fetch.
C28_StopEndsThread ==
    /\ \A t \in 1..MaxThreads :
          (t \in DOMAIN threads /\ ~running)
              ~> (running \/ (t \in DOMAIN threads /\ threads[t].pc = "done"))
    /\ [][ \A t \in DOMAIN threads :
             (Stepped(t) /\ ~running /\ threads[t].pc \in BetweenCycles) =>
                 /\ threads'[t].pc \in {"while", "done"}
                 /\ threads[t].pc = "while" => threads'[t].pc = "done" ]_vars

\* the bot is stopped and a thread that was started has ended
C28_Witness ==
    /\ ~running
    /\ \E t \in DOMAIN threads : threads[t].pc = "done"
    /\ current_signals # EmptyDict

-----------------------------------------------------------------------------
(* Signals of the latest run *)

\* the strategies that were active in the run that has just returned and of
\* which calculate and get_signal both returned
Completed ==
    {i \in DOMAIN strategies :
        strategies[i].is_active /\ StrategyOutcome(strategies[i], last.arg) \in Signals}

\* C29: after a run_strategies call made with data available, current_signals
\* has one entry under the name of each strategy that was active and
\* completed calculate and get_signal in that call, holding the signal of such
\* a strategy, and no other entry: nothing is left from an earlier call, so a
\* strategy that failed or was switched off casts no vote in
\* get_combined_signal.
C29_OnlyLatestSignals ==
    (last.op = "run_strategies" /\ data # NoneFrame) =>
        /\ DOMAIN current_signals = {strategies[i].name : i \in Completed}
        /\ \A n \in DOMAIN current_signals :
              \E i \in Completed :
                  /\ strategies[i].name = n
                  /\ current_signals[n] = StrategyOutcome(strategies[i], last.arg)
        /\ \A i \in DOMAIN strategies \ Completed :
              (\A j \in Completed : strategies[j].name # strategies[i].name) =>
                  \A mode \in KnownModes :
                      CombinedSignal(current_signals, mode) =
                          CombinedSignal(
                              [n \in DOMAIN current_signals \ {strategies[i].name} |->
                                  current_signals[n]], mode)

\* a run in which Supertrend raised and Golden Cross was switched off: the
\* two other strategies alone have an entry
C29_Witness ==
    /\ last.op = "run_strategies"
    /\ data # NoneFrame
    /\ ~strategies[2].is_active
    /\ strategies[1].is_active
    /\ last.arg["Supertrend"] = "raise"
    /\ DOMAIN current_signals = {"Bollinger Bands", "Funding Rate"}

-----------------------------------------------------------------------------
(* Settings with a bad input *)

\* C30: update_settings goes through the four strategies in the order
\* Supertrend, Golden Cross, Bollinger Bands, Funding Rate; when a conversion
\* for strategy k raises, every strategy before k holds the values of the
\* form, strategy k and the later ones hold the values they had, the handler
\* returns, and start_bot goes on to set the flag and start a polling thread
\* on that mixed state.
C30_PartialSettings ==
    [][ last'.op \in {"update_settings", "start_bot"} =>
          LET v == last'.arg
              failed == FirstFail(v)
          IN  /\ Len(strategies') = Len(strategies)
              /\ \A k \in DOMAIN strategies :
                    IF k <= 4 /\ k < failed
                    THEN /\ DOMAIN strategies'[k] = DOMAIN strategies[k]
                         /\ \A a \in DOMAIN strategies[k] :
                               strategies'[k][a] =
                                   IF a \in DOMAIN Params(k, v) THEN Params(k, v)[a]
                                   ELSE strategies[k][a]
                    ELSE strategies'[k] = strategies[k]
              /\ last'.op = "start_bot" =>
                    /\ running'
                    /\ Len(threads') = Len(threads) + 1
                    /\ threads'[Len(threads')].pc = "while" ]_vars

\* Start was clicked on a form whose Golden Cross period is no number: the
\* thread is started, Supertrend was switched back on as the form says, and
\* Golden Cross and Bollinger Bands are as they were, not as the form says
C30_Witness ==
    /\ last.op = "start_bot"
    /\ FirstFail(last.arg) = 2
    /\ running
    /\ Len(threads) >= 1
    /\ strategies[1].is_active
    /\ strategies[2].is_active /\ ~last.arg.gc_active
    /\ ~strategies[3].is_active /\ last.arg.bb_active

====
